---- MODULE Spec2Model ----
(***************************************************************************)
(* Model of src/module_1/module_1_meteo_api.py: the retry loop of           *)
(* fetch_api_data, validate_response_schema, process_daily_data and the     *)
(* driver main.                                                             *)
(*                                                                          *)
(* Values the program takes as floats are integers here; a mean is kept as  *)
(* an exact fraction.  An API response is a function from its keys to      *)
(* their values, so "key in response" is "key \in DOMAIN response".         *)
(***************************************************************************)
EXTENDS Integers, Sequences, FiniteSets, TLC

VARIABLES
    \* one call of fetch_api_data
    pc,              \* "idle", "loop" (at the while test), "returned", "raised"
    retries,         \* the local counter of line 33
    max_retries,     \* parameter
    backoff_factor,  \* parameter
    history,         \* one entry per requests.get call, with the sleep that followed it
    result,          \* what the call returned or raised
    \* main
    main_pc,         \* "off", "for", "in_city", "done", "raised"
    idx,             \* how many cities the for loop has taken
    attempted,       \* the cities announced at line 172, in order
    outcomes,        \* per city taken: "success" or the stage that raised
    all_data,        \* the list all_data of line 169
    plots,           \* how many times plot_combined_data was called
    main_exc,        \* the exception that left main, if any
    \* one call of validate_response_schema
    v_pc, v_response, v_result,
    v_given,         \* the response as it was when the call was made
    \* one call of process_daily_data
    a_pc, a_response, a_city, a_result

fetchVars == <<pc, retries, max_retries, backoff_factor, history, result>>
mainVars == <<main_pc, idx, attempted, outcomes, all_data, plots, main_exc>>
valVars == <<v_pc, v_response, v_result, v_given>>
aggVars == <<a_pc, a_response, a_city, a_result>>
vars == <<fetchVars, mainVars, valVars, aggVars>>

---------------------------------------------------------------------------
\* Bounds of the model.

\* fetch_api_data is called with max_retries in 0..MaxRetriesBound
MaxRetriesBound == 3
\* and with backoff_factor in 1..MaxBackoff
MaxBackoff == 2
\* process_daily_data is given at most MaxRows daily rows
MaxRows == 2

\* A call is followed for at most MaxRequests requests, one more than any
\* max_retries, so that a call that overruns its budget is seen to.
MaxRequests == MaxRetriesBound + 1

---------------------------------------------------------------------------
\* Program constants.

DefaultMaxRetries == 3
DefaultBackoffFactor == 1
DefaultRetryAfter == 10

COORDINATES == <<"Madrid", "London", "Rio">>
VARIABLES_ == <<"temperature_2m_mean", "precipitation_sum", "wind_speed_10m_max">>

---------------------------------------------------------------------------
\* Exceptions and results.

NoExc == [type |-> "", msg |-> "", arg |-> ""]
Exc(t, m, a) == [type |-> t, msg |-> m, arg |-> a]

Max(a, b) == IF a > b THEN a ELSE b

---------------------------------------------------------------------------
\* API responses.

required_keys == <<"daily", "daily_units", "latitude", "longitude", "generationtime_ms">>
required_vars == VARIABLES_ \o <<"time">>

Range(s) == {s[i] : i \in 1..Len(s)}

\* f without the key k (a dict that lacks k)
Without(f, k) == [x \in DOMAIN f \ {k} |-> f[x]]

\* The daily mapping of a response: "time" is an array of dates <<year, month,
\* day>> (the strings "2010-01-01"), the others arrays of numbers.
Daily(time, temp, precip, wind) ==
    [time |-> time, temperature_2m_mean |-> temp,
     precipitation_sum |-> precip, wind_speed_10m_max |-> wind]

Response(daily) ==
    [daily |-> daily, daily_units |-> "units", latitude |-> 40,
     longitude |-> -3, generationtime_ms |-> 1]

\* the sample of test_process_daily_data
SampleDaily ==
    Daily(<< <<2010, 1, 1>>, <<2010, 1, 2>> >>, <<10, 12>>, <<5, 0>>, <<3, 4>>)

GoodBody == Response(SampleDaily)
\* the bodies a server may send with a 200: complete, a top-level key missing,
\* a daily variable missing, arrays of unequal length
Bodies ==
    { GoodBody,
      Without(GoodBody, "longitude"),
      Response(Without(SampleDaily, "time")),
      Response(Daily(<< <<2010, 1, 1>>, <<2010, 1, 2>> >>, <<10, 12>>, <<5, 0>>, <<3>>)) }

NoBody == [x \in {} |-> 0]

---------------------------------------------------------------------------
\* fetch_api_data

\* what requests.get may answer, other than a body
Statuses == {200, 204, 404, 429, 500}
\* the headers of a 429: Retry-After absent, or a decimal string of seconds
\* (a sequence of digits)
NoHeaders == [x \in {} |-> <<>>]
HeaderSets == {NoHeaders} \cup {[h \in {"Retry-After"} |-> d] : d \in {<<3>>, <<1, 2>>}}

\* int(s) of a decimal string
RECURSIVE int(_)
int(digits) ==
    IF digits = <<>> THEN 0
    ELSE 10 * int(SubSeq(digits, 1, Len(digits) - 1)) + digits[Len(digits)]

\* RetryAfter with the header ignored
RetryAfterDefaultOnly(headers) == DefaultRetryAfter

\* line 40: int(response.headers.get("Retry-After", 10))
RetryAfter(headers) ==
    IF "Retry-After" \in DOMAIN headers THEN int(headers["Retry-After"])
    ELSE DefaultRetryAfter

\* line 42: the argument of time.sleep on a 429
RateLimitSleep(retry_after, bf) == retry_after * bf

\* BackoffSleep with the exponent taken before the increment
BackoffSleepEarly(bf, r) == bf * (2 ^ (r - 1))

\* line 50: the argument of time.sleep after a failed request
BackoffSleep(bf, r) == bf * (2 ^ r)

\* RaisesForStatus for the server errors only
RaisesForStatus5xx(status) == status >= 500 /\ status < 600

\* line 45: response.raise_for_status() raises HTTPError, a RequestException,
\* for the 4xx and 5xx statuses and returns for every other status
RaisesForStatus(status) == status >= 400 /\ status < 600

\* line 34: the while test
LoopCondition(r, m) == r < m

\* an entry of history: the answer of one requests.get call and what the
\* iteration did with it
Attempt(kind, status, headers, body, slept, sleep, after) ==
    [kind |-> kind, status |-> status, headers |-> headers, body |-> body,
     slept |-> slept, sleep |-> sleep, retries |-> after]

Returned(body) == [kind |-> "body", body |-> body, exc |-> NoExc]
Raised(e) == [kind |-> "exc", body |-> NoBody, exc |-> e]
NoResult == [kind |-> "none", body |-> NoBody, exc |-> NoExc]

\* fetch_api_data is entered: line 33
FetchEnter(m, bf) ==
    /\ pc' = "loop"
    /\ retries' = 0
    /\ max_retries' = m
    /\ backoff_factor' = bf
    /\ history' = <<>>
    /\ result' = NoResult

\* an iteration starts: the while test holds and requests.get is called
Iterating ==
    /\ pc = "loop"
    /\ LoopCondition(retries, max_retries)
    /\ Len(history) < MaxRequests

\* lines 46-54: the handler of RequestException, entered after the request
\* of this iteration failed (kind, status say how)
ExceptHandler(kind, status) ==
    /\ retries' = retries + 1
    /\ IF retries + 1 < max_retries
       THEN /\ history' = Append(history,
                   Attempt(kind, status, NoHeaders, NoBody, TRUE,
                           BackoffSleep(backoff_factor, retries + 1), retries + 1))
            /\ pc' = "loop"
            /\ result' = result
       ELSE /\ history' = Append(history,
                   Attempt(kind, status, NoHeaders, NoBody, FALSE, 0, retries + 1))
            /\ pc' = "raised"
            /\ result' = Raised(Exc("Exception", "Max retries exceeded", ""))
    /\ UNCHANGED <<max_retries, backoff_factor>>

\* FetchOk without the return: the 200 is counted and the loop goes round
FetchOkNoReturn(body) ==
    /\ Iterating
    /\ history' = Append(history,
           Attempt("response", 200, NoHeaders, body, FALSE, 0, retries + 1))
    /\ retries' = retries + 1
    /\ UNCHANGED <<pc, max_retries, backoff_factor, result>>

\* lines 37-38: status 200, the body is returned
FetchOk(body) ==
    /\ Iterating
    /\ history' = Append(history, Attempt("response", 200, NoHeaders, body, FALSE, 0, retries))
    /\ pc' = "returned"
    /\ result' = Returned(body)
    /\ UNCHANGED <<retries, max_retries, backoff_factor>>

\* FetchRateLimited with a counter of its own: retries is left alone
FetchRateLimitedUncounted(headers) ==
    /\ Iterating
    /\ history' = Append(history,
           Attempt("response", 429, headers, NoBody, TRUE,
                   RateLimitSleep(RetryAfter(headers), backoff_factor), retries))
    /\ UNCHANGED <<pc, retries, max_retries, backoff_factor, result>>

\* lines 39-43: status 429
FetchRateLimited(headers) ==
    /\ Iterating
    /\ history' = Append(history,
           Attempt("response", 429, headers, NoBody, TRUE,
                   RateLimitSleep(RetryAfter(headers), backoff_factor), retries + 1))
    /\ retries' = retries + 1
    /\ UNCHANGED <<pc, max_retries, backoff_factor, result>>

\* lines 44-45: any other status.  raise_for_status either raises into the
\* handler or returns, and then the loop goes round with retries unchanged
FetchOtherStatus(status) ==
    /\ Iterating
    /\ status \notin {200, 429}
    /\ IF RaisesForStatus(status)
       THEN ExceptHandler("response", status)
       ELSE /\ history' = Append(history,
                   Attempt("response", status, NoHeaders, NoBody, FALSE, 0, retries))
            /\ UNCHANGED <<pc, retries, max_retries, backoff_factor, result>>

\* line 36 raises RequestException: no response (connection error, timeout)
FetchRequestException ==
    /\ Iterating
    /\ ExceptHandler("failure", 0)

\* line 55: the while test fails
FetchLoopExit ==
    /\ pc = "loop"
    /\ ~LoopCondition(retries, max_retries)
    /\ pc' = "raised"
    /\ result' = Raised(Exc("Exception", "API request failed after retries", ""))
    /\ UNCHANGED <<retries, max_retries, backoff_factor, history>>

FetchOkStep == (\E body \in Bodies : FetchOk(body)) /\ UNCHANGED <<mainVars, valVars, aggVars>>
FetchRateLimitedStep ==
    (\E headers \in HeaderSets : FetchRateLimited(headers)) /\ UNCHANGED <<mainVars, valVars, aggVars>>
FetchOtherStatusStep ==
    (\E status \in Statuses : FetchOtherStatus(status)) /\ UNCHANGED <<mainVars, valVars, aggVars>>
FetchRequestExceptionStep == FetchRequestException /\ UNCHANGED <<mainVars, valVars, aggVars>>
FetchLoopExitStep == FetchLoopExit /\ UNCHANGED <<mainVars, valVars, aggVars>>

FetchNext ==
    \/ FetchOkStep
    \/ FetchRateLimitedStep
    \/ FetchOtherStatusStep
    \/ FetchRequestExceptionStep
    \/ FetchLoopExitStep

MainOff ==
    /\ main_pc = "off" /\ idx = 0 /\ attempted = <<>> /\ outcomes = <<>> /\ all_data = <<>>
    /\ plots = 0 /\ main_exc = NoExc
ValOff == v_pc = "off" /\ v_response = NoBody /\ v_result = NoExc /\ v_given = NoBody
AggOff == a_pc = "off" /\ a_response = NoBody /\ a_city = "" /\ a_result = NoResult

\* fetch_api_data(url, params, max_retries, backoff_factor), called directly
InitFetch ==
    /\ pc = "loop"
    /\ retries = 0
    /\ max_retries \in 0..MaxRetriesBound
    /\ backoff_factor \in 1..MaxBackoff
    /\ history = <<>>
    /\ result = NoResult
    /\ MainOff /\ ValOff /\ AggOff

SpecFetch == InitFetch /\ [][FetchNext]_vars

\* the number of requests.get calls of the call
requests == Len(history)

Terminal == pc \in {"returned", "raised"}
\* retries before the i-th request
RetriesBefore(i) == IF i = 1 THEN 0 ELSE history[i - 1].retries
Is429(i) == history[i].kind = "response" /\ history[i].status = 429
IsFailure(i) == history[i].kind = "failure"
IsErrorStatus(i) ==
    /\ history[i].kind = "response"
    /\ history[i].status >= 400 /\ history[i].status < 600
    /\ history[i].status # 429
IsOtherStatus(i) == history[i].kind = "response" /\ history[i].status \notin {200, 429}
Attempts == 1..Len(history)

---------------------------------------------------------------------------
\* Claims about fetch_api_data, checked under SpecFetch.

\* C1 (as claimed): a call never issues more than max_retries HTTP requests.
\* It fails: a status that is neither 200, 429 nor an error (204) leaves
\* retries unchanged, so the loop requests again without end.
C1_AtMostMaxRetriesRequests == requests <= max_retries

C3_NetworkFailureBackoff ==
    /\ \A i \in Attempts :
          IsFailure(i) =>
            /\ history[i].retries = RetriesBefore(i) + 1
            /\ IF history[i].retries < max_retries
               THEN /\ history[i].slept
                    /\ history[i].sleep = backoff_factor * (2 ^ history[i].retries)
                    /\ i = Len(history) => pc = "loop"
               ELSE /\ ~history[i].slept
                    /\ i = Len(history)
                    /\ pc = "raised"
                    /\ result.exc.msg = "Max retries exceeded"
    /\ (Terminal /\ history # <<>> /\ \A i \in Attempts : IsFailure(i)) =>
          /\ requests = max_retries
          /\ \A i \in 1..(max_retries - 1) :
                history[i].slept /\ history[i].sleep = backoff_factor * (2 ^ i)
          /\ ~history[max_retries].slept
          /\ result.kind = "exc"
          /\ result.exc.msg = "Max retries exceeded"

C3_Witness ==
    /\ pc = "raised" /\ max_retries = 3 /\ backoff_factor = 2
    /\ requests = 3
    /\ \A i \in Attempts : IsFailure(i)
    /\ history[2].sleep = 8

\* C4 (as claimed): a status other than 200 and 429 is fatal: it ends the
\* call with an error that surfaces the status, and no request follows it.
C4_OtherStatusIsFatal ==
    \A i \in Attempts :
        IsOtherStatus(i) =>
          /\ i = Len(history)
          /\ pc = "raised"
          /\ result.exc.type = "HTTPError"

\* C4 (amended): an error status (400..599) other than 429 is handled as a
\* network failure is: it counts one attempt, is followed by a sleep of
\* backoff_factor * 2^attempt and a retry if attempts remain, and otherwise
\* ends the call with "Max retries exceeded"; its body is never returned.
C4_ErrorStatusIsRetried ==
    \A i \in Attempts :
        IsErrorStatus(i) =>
          /\ history[i].retries = RetriesBefore(i) + 1
          /\ IF history[i].retries < max_retries
             THEN /\ history[i].slept
                  /\ history[i].sleep = backoff_factor * (2 ^ history[i].retries)
                  /\ i = Len(history) => pc = "loop"
             ELSE /\ ~history[i].slept
                  /\ i = Len(history)
                  /\ pc = "raised"
                  /\ result.exc.msg = "Max retries exceeded"
          /\ i = Len(history) => result.kind # "body"

C4_Witness ==
    /\ requests = 3 /\ max_retries = 3
    /\ history[1].status = 500 /\ history[1].slept
    /\ history[2].status = 404 /\ history[2].slept
    /\ history[3].status = 200
    /\ pc = "returned"

FailuresUpTo(i) == Cardinality({j \in 1..i : IsFailure(j)})
CountedUpTo(i) == Cardinality({j \in 1..i : Is429(j) \/ IsFailure(j) \/ IsErrorStatus(j)})

\* C10 (as claimed): in a call that sees only 429s and network failures, the
\* sleep after a network failure is backoff_factor * 2^(network failures so
\* far), whether or not 429s came before it.
C10_BackoffIgnores429 ==
    (\A i \in Attempts : Is429(i) \/ IsFailure(i)) =>
        \A i \in Attempts :
            (IsFailure(i) /\ history[i].slept) =>
                history[i].sleep = backoff_factor * (2 ^ FailuresUpTo(i))

\* C10 (amended): a 429 counts against both the retry budget and the backoff
\* schedule: the sleep after a failed request is backoff_factor * 2^n, n the
\* number of attempts counted so far in the call, 429s included, and every
\* 429 adds one to the attempts counted against max_retries.
C10_BackoffCounts429 ==
    /\ \A i \in Attempts :
          ((IsFailure(i) \/ IsErrorStatus(i)) /\ history[i].slept) =>
              history[i].sleep = backoff_factor * (2 ^ CountedUpTo(i))
    /\ \A i \in Attempts : Is429(i) => history[i].retries = RetriesBefore(i) + 1
    /\ retries = CountedUpTo(Len(history))
    /\ retries <= max_retries

C10_Witness ==
    /\ requests >= 2 /\ max_retries = 3 /\ backoff_factor = 1
    /\ Is429(1)
    /\ IsFailure(2) /\ history[2].slept /\ history[2].sleep = 4

---------------------------------------------------------------------------
\* validate_response_schema

\* the first key of the list keys that is not in present, "" if there is none:
\* the for loops of lines 69-71 and 75-79 raise at the first miss
RECURSIVE FirstMissing(_, _)
FirstMissing(keys, present) ==
    IF keys = <<>> THEN ""
    ELSE IF Head(keys) \notin present THEN Head(keys)
    ELSE FirstMissing(Tail(keys), present)

\* validate_response_schema with the two loops in the other order
validate_daily_first(response) ==
    LET dv == IF "daily" \in DOMAIN response
              THEN FirstMissing(required_vars, DOMAIN response["daily"])
              ELSE "daily"
        key == FirstMissing(required_keys, DOMAIN response)
    IN  IF dv = "daily"
        THEN Exc("ValueError", "Invalid API response: missing key", "daily")
        ELSE IF dv # ""
        THEN Exc("ValueError", "Invalid API response: missing variable in daily data", dv)
        ELSE IF key # ""
        THEN Exc("ValueError", "Invalid API response: missing key", key)
        ELSE NoExc

\* lines 57-79: the exception raised, NoExc when the function returns
validate_response_schema(response) ==
    LET key == FirstMissing(required_keys, DOMAIN response)
    IN  IF key # ""
        THEN Exc("ValueError", "Invalid API response: missing key", key)
        ELSE LET var == FirstMissing(required_vars, DOMAIN response["daily"])
             IN  IF var # ""
                 THEN Exc("ValueError",
                          "Invalid API response: missing variable in daily data", var)
                 ELSE NoExc

\* the call: validate_response_schema(v_response)
Validate ==
    /\ v_pc = "call"
    /\ v_result' = validate_response_schema(v_response)
    /\ v_response' = v_response
    /\ v_given' = v_given
    /\ v_pc' = "done"
    /\ UNCHANGED <<fetchVars, mainVars, aggVars>>

\* the responses validated: any set K of top-level keys (one unknown key
\* among them), any set D of daily keys, arrays empty or as in the sample
TopValues == [GoodBody EXCEPT !["daily"] = NoBody] @@ [elevation |-> 667]
ValidateInput(K, D, filled) ==
    [k \in K |-> IF k = "daily"
                 THEN [v \in D |-> IF filled THEN SampleDaily[v] ELSE <<>>]
                 ELSE TopValues[k]]

FetchOff ==
    /\ pc = "idle" /\ retries = 0 /\ max_retries = 0 /\ backoff_factor = 0
    /\ history = <<>> /\ result = NoResult

InitValidate ==
    /\ v_pc = "call"
    /\ \E K \in SUBSET DOMAIN TopValues, D \in SUBSET DOMAIN SampleDaily, filled \in BOOLEAN :
          v_response = ValidateInput(K, D, filled)
    /\ v_given = v_response
    /\ v_result = NoExc
    /\ FetchOff /\ MainOff /\ AggOff

SpecValidate == InitValidate /\ [][Validate]_vars

\* C8: validate_response_schema returns, leaving the response as it was,
\* iff the response has the five top-level keys and its daily mapping has
\* the three variables and time (whatever the arrays hold); otherwise it
\* raises ValueError naming the first key missing in check order: the
\* top-level keys as listed, then the variables, then time.
CheckOrder ==
    <<"daily", "daily_units", "latitude", "longitude", "generationtime_ms",
      "temperature_2m_mean", "precipitation_sum", "wind_speed_10m_max", "time">>
C8_Present(i) ==
    IF i <= 5 THEN CheckOrder[i] \in DOMAIN v_response
    ELSE /\ "daily" \in DOMAIN v_response
         /\ CheckOrder[i] \in DOMAIN v_response["daily"]
C8_ValidateIffAllKeys ==
    v_pc = "done" =>
        /\ v_response = v_given
        /\ v_result = NoExc <=> \A i \in 1..9 : C8_Present(i)
        /\ v_result # NoExc =>
              /\ v_result.type = "ValueError"
              /\ \E i \in 1..9 :
                    /\ v_result.arg = CheckOrder[i]
                    /\ ~C8_Present(i)
                    /\ \A j \in 1..(i - 1) : C8_Present(j)
                    /\ v_result.msg =
                         (IF i <= 5 THEN "Invalid API response: missing key"
                          ELSE "Invalid API response: missing variable in daily data")

\* a response lacking a top-level key and a daily variable was rejected for
\* the top-level key
C8_Witness ==
    /\ v_pc = "done"
    /\ DOMAIN v_response = {"daily", "latitude", "generationtime_ms"}
    /\ DOMAIN v_response["daily"] = {"time"}
    /\ v_result.arg = "daily_units"

---------------------------------------------------------------------------
\* process_daily_data

\* A float of a table: a fraction num/den, or NaN
Float(n) == [nan |-> FALSE, num |-> n, den |-> 1]
NaN == [nan |-> TRUE, num |-> 0, den |-> 1]

RECURSIVE SumSeq(_)
SumSeq(s) == IF s = <<>> THEN 0 ELSE Head(s) + SumSeq(Tail(s))

RECURSIVE MaxSeq(_)
MaxSeq(s) == IF Len(s) = 1 THEN s[1] ELSE Max(Head(s), MaxSeq(Tail(s)))

\* Mean with the reducer of the next line pasted in
MeanAsSum(s) == IF s = <<>> THEN NaN ELSE Float(SumSeq(s))

\* line 131: resample('ME').mean() of one month's values
Mean(s) == IF s = <<>> THEN NaN ELSE [nan |-> FALSE, num |-> SumSeq(s), den |-> Len(s)]
\* line 132: resample('ME').sum(): 0 for a month without rows
Sum(s) == Float(SumSeq(s))
\* line 133: resample('ME').max()
Maximum(s) == IF s = <<>> THEN NaN ELSE Float(MaxSeq(s))

\* line 126: pd.to_datetime of the string "yyyy-mm-dd", here <<yyyy, mm, dd>>
to_datetime(t) == [year |-> t[1], month |-> t[2], day |-> t[3]]

\* the calendar month of a timestamp, counted in months: the bin of
\* resample('ME')
MonthOf(ts) == ts.year * 12 + (ts.month - 1)
\* the label of a bin: its month end, here its year and month
MonthEnd(b) == [year |-> b \div 12, month |-> (b % 12) + 1]

Column(df, name) == [i \in 1..Len(df) |-> df[i][name]]
InMonth(df, b) == SelectSeq(df, LAMBDA row : MonthOf(row.time) = b)

\* lines 130-134: one row per month from the first to the last month of df
Resample(df, city) ==
    IF df = <<>> THEN <<>>
    ELSE LET months == {MonthOf(df[i].time) : i \in 1..Len(df)}
             first == CHOOSE b \in months : \A c \in months : b <= c
             last == CHOOSE b \in months : \A c \in months : b >= c
         IN  [k \in 1..(last - first + 1) |->
                LET rows == InMonth(df, first + k - 1)
                IN  [time |-> MonthEnd(first + k - 1),
                     temperature |-> Mean(Column(rows, "temperature")),
                     precipitation |-> Sum(Column(rows, "precipitation")),
                     wind_speed |-> Maximum(Column(rows, "wind_speed")),
                     city |-> city]]

\* lines 119-125: the keys read from daily, in the order they are read
daily_columns == <<"time", "temperature_2m_mean", "precipitation_sum", "wind_speed_10m_max">>

\* lines 109-135: the table returned, or the exception raised: KeyError for
\* a key that is not there, ValueError from pd.DataFrame for arrays of
\* unequal length
process_daily_data(response, city) ==
    IF "daily" \notin DOMAIN response
    THEN Raised(Exc("KeyError", "", "daily"))
    ELSE LET daily_data == response["daily"]
             missing == FirstMissing(daily_columns, DOMAIN daily_data)
         IN  IF missing # ""
             THEN Raised(Exc("KeyError", "", missing))
             ELSE IF \E c \in Range(daily_columns) :
                        Len(daily_data[c]) # Len(daily_data["time"])
             THEN Raised(Exc("ValueError", "All arrays must be of the same length", ""))
             ELSE LET df == [i \in 1..Len(daily_data["time"]) |->
                               [time |-> to_datetime(daily_data["time"][i]),
                                temperature |-> daily_data["temperature_2m_mean"][i],
                                precipitation |-> daily_data["precipitation_sum"][i],
                                wind_speed |-> daily_data["wind_speed_10m_max"][i]]]
                  IN  Returned(Resample(df, city))

\* the call: process_daily_data(a_response, a_city)
Aggregate ==
    /\ a_pc = "call"
    /\ a_result' = process_daily_data(a_response, a_city)
    /\ a_pc' = "done"
    /\ UNCHANGED <<a_response, a_city>>
    /\ UNCHANGED <<fetchVars, mainVars, valVars>>

\* the daily series given: up to MaxRows days in date order, in one month or
\* several, a year apart at most; or one array a value short
Dates == {<<2010, 1, 1>>, <<2010, 1, 2>>, <<2010, 2, 1>>, <<2010, 3, 2>>, <<2011, 1, 1>>}
DateLE(a, b) ==
    \/ MonthOf(to_datetime(a)) < MonthOf(to_datetime(b))
    \/ MonthOf(to_datetime(a)) = MonthOf(to_datetime(b)) /\ a[3] <= b[3]
SortedTimes(n) == {t \in [1..n -> Dates] : \A i \in 1..(n - 1) : DateLE(t[i], t[i + 1])}

InitAggregate ==
    /\ a_pc = "call"
    /\ \E n \in 0..MaxRows :
          \E time \in SortedTimes(n), temp \in [1..n -> {10, 12}],
             precip \in [1..n -> {0, 5}],
             wind \in [1..n -> {3, 4}] \cup [1..(n - 1) -> {3}] :
              a_response = Response(Daily(time, temp, precip, wind))
    /\ a_city \in {"Madrid", "Rio"}
    /\ a_result = NoResult
    /\ FetchOff /\ MainOff /\ ValOff

SpecAggregate == InitAggregate /\ [][Aggregate]_vars

\* C9: daily rows (one at least, arrays aligned) that all fall in one
\* calendar month give exactly one monthly row: temperature the arithmetic
\* mean, precipitation the sum, wind_speed the maximum of the rows, city the
\* name given.  The sample of two days, 10/12, 5/0, 3/4 for Madrid, gives 11,
\* 5, 4, "Madrid".
C9_Daily == a_response["daily"]
C9_Rows == Len(C9_Daily["time"])
C9_OneMonth ==
    /\ C9_Rows >= 1
    /\ \A c \in DOMAIN C9_Daily : Len(C9_Daily[c]) = C9_Rows
    /\ \A i, j \in 1..C9_Rows :
          /\ C9_Daily["time"][i][1] = C9_Daily["time"][j][1]
          /\ C9_Daily["time"][i][2] = C9_Daily["time"][j][2]
C9_Total(c) == SumSeq(C9_Daily[c])
C9_SameMonthOneRow ==
    /\ (a_pc = "done" /\ C9_OneMonth) =>
          /\ a_result.kind = "body"
          /\ Len(a_result.body) = 1
          /\ LET row == a_result.body[1]
             IN  /\ ~row.temperature.nan
                 /\ row.temperature.den > 0
                 /\ row.temperature.num * C9_Rows
                      = C9_Total("temperature_2m_mean") * row.temperature.den
                 /\ ~row.precipitation.nan
                 /\ row.precipitation.num
                      = C9_Total("precipitation_sum") * row.precipitation.den
                 /\ ~row.wind_speed.nan
                 /\ row.wind_speed.den = 1
                 /\ \E i \in 1..C9_Rows :
                       row.wind_speed.num = C9_Daily["wind_speed_10m_max"][i]
                 /\ \A i \in 1..C9_Rows :
                       row.wind_speed.num >= C9_Daily["wind_speed_10m_max"][i]
                 /\ row.city = a_city
                 /\ row.time.year = C9_Daily["time"][1][1]
                 /\ row.time.month = C9_Daily["time"][1][2]
    /\ (a_pc = "done" /\ a_response = GoodBody /\ a_city = "Madrid") =>
          /\ Len(a_result.body) = 1
          /\ a_result.body[1].temperature.num = 11 * a_result.body[1].temperature.den
          /\ a_result.body[1].precipitation = Float(5)
          /\ a_result.body[1].wind_speed = Float(4)
          /\ a_result.body[1].city = "Madrid"

C9_Witness ==
    /\ a_pc = "done" /\ a_response = GoodBody /\ a_city = "Madrid"
    /\ Len(a_result.body) = 1
    /\ a_result.body[1].wind_speed = Float(4)

---------------------------------------------------------------------------
\* main

\* concat that accepts an empty list and gives an empty table
concat_empty_ok(list) ==
    Returned([i \in 1..Len(list) |-> list[i]])

\* line 180: pd.concat raises ValueError on an empty list; otherwise the
\* tables are stacked (kept here as the list of them)
concat(list) ==
    IF list = <<>>
    THEN Raised(Exc("ValueError", "No objects to concatenate", ""))
    ELSE Returned([i \in 1..Len(list) |-> list[i]])

\* the fetch_api_data frame is left
FetchLeave ==
    /\ pc' = "idle" /\ retries' = 0 /\ max_retries' = 0 /\ backoff_factor' = 0
    /\ history' = <<>> /\ result' = NoResult

\* CityFailed without the except clause: the exception leaves main
CityFailedAbort(stage, e) ==
    /\ outcomes' = Append(outcomes, [city |-> COORDINATES[idx], stage |-> stage])
    /\ main_pc' = "raised"
    /\ main_exc' = e
    /\ UNCHANGED <<idx, attempted, all_data, plots>>

\* lines 177-179: the exception of a city is caught and the loop continues
CityFailed(stage, e) ==
    /\ outcomes' = Append(outcomes, [city |-> COORDINATES[idx], stage |-> stage])
    /\ main_pc' = "for"
    /\ UNCHANGED <<idx, attempted, all_data, plots, main_exc>>

\* line 176: the table of a city is collected
CitySucceeded(df) ==
    /\ all_data' = Append(all_data, df)
    /\ outcomes' = Append(outcomes, [city |-> COORDINATES[idx], stage |-> "success"])
    /\ main_pc' = "for"
    /\ UNCHANGED <<idx, attempted, plots, main_exc>>

\* lines 171-174 and 90-105: the for loop takes the next city and
\* get_data_meteo_api looks it up and calls fetch_api_data with the defaults
MainNextCity ==
    /\ main_pc = "for"
    /\ idx < Len(COORDINATES)
    /\ idx' = idx + 1
    /\ attempted' = Append(attempted, COORDINATES[idx + 1])
    /\ IF COORDINATES[idx + 1] \notin Range(COORDINATES)
       THEN /\ outcomes' = Append(outcomes, [city |-> COORDINATES[idx + 1], stage |-> "lookup"])
            /\ main_pc' = "for"
            /\ UNCHANGED fetchVars
       ELSE /\ FetchEnter(DefaultMaxRetries, DefaultBackoffFactor)
            /\ main_pc' = "in_city"
            /\ UNCHANGED outcomes
    /\ UNCHANGED <<all_data, plots, main_exc, valVars, aggVars>>

\* fetch_api_data raised: line 105 propagates to the except of line 177
MainFetchRaised ==
    /\ main_pc = "in_city"
    /\ pc = "raised"
    /\ CityFailed("fetch", result.exc)
    /\ FetchLeave
    /\ UNCHANGED <<valVars, aggVars>>

\* fetch_api_data returned: lines 106-107 and 175-176
MainFetchReturned ==
    /\ main_pc = "in_city"
    /\ pc = "returned"
    /\ LET invalid == validate_response_schema(result.body)
           table == process_daily_data(result.body, COORDINATES[idx])
       IN  IF invalid # NoExc THEN CityFailed("validation", invalid)
           ELSE IF table.kind = "exc" THEN CityFailed("aggregation", table.exc)
           ELSE CitySucceeded(table.body)
    /\ FetchLeave
    /\ UNCHANGED <<valVars, aggVars>>

\* lines 180-181: after the loop, concatenate and plot
MainCombine ==
    /\ main_pc = "for"
    /\ idx = Len(COORDINATES)
    /\ LET combined_df == concat(all_data)
       IN  IF combined_df.kind = "exc"
           THEN /\ main_pc' = "raised"
                /\ main_exc' = combined_df.exc
                /\ plots' = plots
           ELSE /\ main_pc' = "done"
                /\ main_exc' = main_exc
                /\ plots' = plots + 1
    /\ UNCHANGED <<idx, attempted, outcomes, all_data, fetchVars, valVars, aggVars>>

InitMain ==
    /\ main_pc = "for" /\ idx = 0 /\ attempted = <<>> /\ outcomes = <<>>
    /\ all_data = <<>> /\ plots = 0 /\ main_exc = NoExc
    /\ FetchOff /\ ValOff /\ AggOff

MainNext ==
    \/ MainNextCity
    \/ FetchNext
    \/ MainFetchRaised
    \/ MainFetchReturned
    \/ MainCombine

SpecMain == InitMain /\ [][MainNext]_vars
\* main is one sequential thread: whenever it has a next step, it takes it
SpecMainFair == SpecMain /\ WF_vars(MainNext)

Finished == main_pc \in {"done", "raised"}
Succeeded == SelectSeq(outcomes, LAMBDA o : o.stage = "success")

\* a fetch_api_data call that has made more requests than its budget and is
\* still looping (see C1); the model follows it no further
Overrun == pc = "loop" /\ LoopCondition(retries, max_retries) /\ Len(history) = MaxRequests

\* the safety part of C6: order, once each, and what all_data holds
C6_Order ==
    /\ idx \in 0..Len(COORDINATES)
    /\ attempted = SubSeq(COORDINATES, 1, idx)
    /\ Len(outcomes) = (IF main_pc = "in_city" THEN idx - 1 ELSE idx)
    /\ \A i \in 1..Len(outcomes) : outcomes[i].city = COORDINATES[i]
    /\ main_pc \in {"for", "in_city", "done", "raised"}
    /\ Finished => attempted = COORDINATES /\ Len(outcomes) = Len(COORDINATES)
    /\ Len(all_data) = Len(Succeeded)
    /\ \A k \in 1..Len(all_data) :
          /\ all_data[k] # <<>>
          /\ \A r \in 1..Len(all_data[k]) : all_data[k][r].city = Succeeded[k].city

\* C6: the cities are taken once each in registry order; a city that fails
\* at any stage is recorded and the loop goes on, so main ends only after
\* all cities were attempted; all_data holds the tables of exactly the
\* cities that succeeded, in order, throughout and when concat runs; and
\* whatever the outcomes of the cities, main gets to its end (unless a fetch
\* call never comes back).
C6_EveryCityAttemptedInOrder == []C6_Order /\ <>(Finished \/ Overrun)

\* the first city failed in fetch, the second in validation, the third
\* succeeded, and concat is about to run on the one table
C6_Witness ==
    /\ main_pc = "for" /\ idx = 3
    /\ outcomes[1].stage = "fetch"
    /\ outcomes[2].stage = "validation"
    /\ outcomes[3].stage = "success"
    /\ Len(all_data) = 1 /\ all_data[1][1].city = "Rio"

\* C7: with no city succeeded, concat raises, main ends in that exception
\* and plot_combined_data is never called; with a city succeeded, it is
\* called once, after all cities were attempted; and main raises in no other
\* situation.
C7_PlotIffSomeCitySucceeded ==
    /\ plots \in {0, 1}
    /\ (Finished /\ Succeeded = <<>>) =>
          /\ main_pc = "raised"
          /\ plots = 0
          /\ main_exc = Exc("ValueError", "No objects to concatenate", "")
    /\ (Finished /\ Succeeded # <<>>) =>
          /\ main_pc = "done"
          /\ plots = 1
          /\ main_exc = NoExc
    /\ plots = 1 => Finished /\ attempted = COORDINATES /\ Succeeded # <<>>
    /\ main_pc = "raised" =>
          /\ Len(outcomes) = Len(COORDINATES)
          /\ \A i \in 1..Len(outcomes) : outcomes[i].stage # "success"
    /\ ~Finished => plots = 0 /\ main_exc = NoExc

\* all three cities failed, each at another stage, and main raised
C7_Witness ==
    /\ main_pc = "raised" /\ plots = 0
    /\ outcomes[1].stage = "aggregation"
    /\ outcomes[2].stage = "fetch"
    /\ outcomes[3].stage = "validation"

====
